---- MODULE Spec2Model ----
(***************************************************************************)
(* Monte Carlo option pricing notebooks: simulate_gbm, the least-squares   *)
(* Monte Carlo pricer lsmc_american_option, european_option_simulation and *)
(* black_scholes_analytical; and the backtest of BBand_Strategy.            *)
(*                                                                         *)
(* Number model.  Floating point amounts are fixed-point integers with two *)
(* decimals (1.00 is 100); a product of two amounts is rounded down.       *)
(* Logarithms live on a lattice: mu, sigma^2 and the noise are integer     *)
(* multiples of the lattice step, exponents are kept doubled so that the   *)
(* Ito term 0.5*sigma^2 stays integral, and np.exp grows by 10% per        *)
(* doubled-exponent unit.  A mean is kept as an exact fraction num/den.    *)
(* The process-wide generator of np.random is a deterministic stream: a    *)
(* seed fixes its state, every draw advances it.                           *)
(***************************************************************************)
EXTENDS Integers, Sequences, FiniteSets

\* ---------------------------------------------------------------- bounds
MaxSims == 3
MaxN == 2
MaxSteps == 3
MaxBars == 4

\* ---------------------------------------------------------------- numbers
\* not-a-number, as produced by np.sqrt of a negative dt
NaN == 0 - 1000000

\* an integer amount as a fixed-point amount
Fx(n) == n * 100

\* product of two non-negative fixed-point amounts
FxMul(a, b) == (a * b) \div 100

Max(a, b) == IF a >= b THEN a ELSE b

\* np.exp on the doubled exponent h, i.e. exp(h/2), as a fixed-point amount
RECURSIVE Exp2(_)
Exp2(h) ==
    IF h = 0 THEN 100
    ELSE IF h > 0 THEN (Exp2(h - 1) * 11) \div 10
    ELSE (Exp2(h + 1) * 10) \div 11

\* dt = T/N for N # 0 (the inputs keep the quotient integral)
TrueDiv(a, b) == IF b > 0 THEN a \div b ELSE (0 - a) \div (0 - b)

\* np.sqrt(dt): nan for a negative argument (the inputs keep dt a square)
Sqrt(x) == IF x < 0 THEN NaN ELSE CHOOSE s \in 0..x : s * s = x

\* fault: the half is rounded up
HalfSimsCeil(n) == (n + 1) \div 2

\* int(n_sims/2): true division, then truncation towards zero
HalfSims(n) == IF n >= 0 THEN n \div 2 ELSE 0 - ((0 - n) \div 2)

\* ---------------------------------------------------------------- matrices
\* a matrix is [nrow, ncol, a] with a[i][j], i in 1..nrow, j in 1..ncol;
\* column c of the code is index c+1
Matrix(nr, nc, f(_, _)) ==
    [nrow |-> nr, ncol |-> nc,
     a |-> [i \in 1..nr |-> [j \in 1..nc |-> f(i, j)]]]

NoMatrix == [nrow |-> 0, ncol |-> 0, a |-> <<>>]

RECURSIVE SumTo(_, _)
SumTo(f, n) == IF n = 0 THEN 0 ELSE f[n] + SumTo(f, n - 1)

\* ---------------------------------------------------------------- np.random
RngStates == 0..7

\* np.random.seed(s): the state is a function of the seed alone
SeedState(s) == s % 8

\* fault: the call does not seed the generator
ReseedSkipped(x, s) == x

\* the generator's state x after np.random.seed(s)
Reseed(x, s) == SeedState(s)

\* the generator's state after one more draw
NextRng(x) == (5 * x + 3) % 8

RECURSIVE RngAt(_, _)
RngAt(x, k) == IF k = 0 THEN x ELSE NextRng(RngAt(x, k - 1))

\* the standard normal variate a state yields: a symmetric three-point law
Noise(x) == (x % 3) - 1

\* scale * variate, as np.random.normal(scale=...) returns it
Scaled(scale, z) == IF scale = NaN THEN NaN ELSE scale * z

\* np.random.normal(scale=scale, size=(nr, nc)) from state x, row by row
Normal(x, scale, nr, nc) ==
    Matrix(nr, nc, LAMBDA i, j : Scaled(scale, Noise(RngAt(x, (i - 1) * nc + j))))

\* ---------------------------------------------------------------- simulate_gbm
Negate(x) == IF x = NaN THEN NaN ELSE 0 - x

\* rows drawn: int(n_sims/2) in antithetic mode, n_sims otherwise
DrawRows(n_sims, antithetic_var) ==
    IF antithetic_var THEN HalfSims(n_sims) ELSE n_sims

\* fault: the second half repeats the first instead of negating it
AntitheticCopy(dW_ant) ==
    Matrix(2 * dW_ant.nrow, dW_ant.ncol,
           LAMBDA i, j : IF i <= dW_ant.nrow THEN dW_ant.a[i][j]
                         ELSE dW_ant.a[i - dW_ant.nrow][j])

\* np.concatenate((dW_ant, -dW_ant), axis=0)
Antithetic(dW_ant) ==
    Matrix(2 * dW_ant.nrow, dW_ant.ncol,
           LAMBDA i, j : IF i <= dW_ant.nrow THEN dW_ant.a[i][j]
                         ELSE Negate(dW_ant.a[i - dW_ant.nrow][j]))

\* fault: N columns are drawn instead of N + 1
BrownianNColumns(x, n_sims, N, dt, antithetic_var) ==
    IF antithetic_var
    THEN Antithetic(Normal(x, Sqrt(dt), HalfSims(n_sims), N))
    ELSE Normal(x, Sqrt(dt), n_sims, N)

\* the noise matrix dW drawn from generator state x
Brownian(x, n_sims, N, dt, antithetic_var) ==
    IF antithetic_var
    THEN Antithetic(Normal(x, Sqrt(dt), HalfSims(n_sims), N + 1))
    ELSE Normal(x, Sqrt(dt), n_sims, N + 1)

\* (mu - 0.5 * sigma ** 2) * dt + sigma * dW, doubled
LogStep(mu, sigma, dt, dw) ==
    IF dw = NaN THEN NaN ELSE (2 * mu - sigma * sigma) * dt + 2 * sigma * dw

\* np.cumsum(..., axis=1) at column index j of one row of increments
RECURSIVE CumSum(_, _)
CumSum(row, j) ==
    IF j = 0 THEN 0
    ELSE IF row[j] = NaN \/ CumSum(row, j - 1) = NaN THEN NaN
    ELSE row[j] + CumSum(row, j - 1)

\* s_0 * np.exp(h)
Price(s_0, h) == IF h = NaN THEN NaN ELSE s_0 * Exp2(h)

\* s_0 * np.exp(np.cumsum((mu - 0.5*sigma**2)*dt + sigma*dW, axis=1))
GbmExp(s_0, mu, sigma, dt, dW) ==
    Matrix(dW.nrow, dW.ncol,
           LAMBDA i, j :
               Price(s_0, CumSum([c \in 1..dW.ncol |->
                                     LogStep(mu, sigma, dt, dW.a[i][c])], j)))

\* fault: the first column is left as simulated
FirstColumnKept(S, s_0) == S

\* S_t[:, 0] = s_0
FirstColumn(S, s_0) ==
    Matrix(S.nrow, S.ncol, LAMBDA i, j : IF j = 1 THEN Fx(s_0) ELSE S.a[i][j])

\* ---------------------------------------------------------------- LSMC
\* fault: the sign of the rate is lost, the factor compounds
DiscountFactorGrowth(r, dt) == Exp2(2 * r * dt)

\* discount_factor = np.exp(-r * dt)
DiscountFactor(r, dt) == Exp2(0 - 2 * r * dt)

\* np.maximum(S - K, 0) for a call, np.maximum(K - S, 0) for a put
PayoffMatrix(S, K, option_type) ==
    Matrix(S.nrow, S.ncol,
           LAMBDA i, j : IF option_type = "call"
                         THEN Max(S.a[i][j] - Fx(K), 0)
                         ELSE Max(Fx(K) - S.a[i][j], 0))

\* fault: the value matrix starts as a copy of the payoff matrix
ValueInitCopy(payoff) == payoff

\* fault: the last column is not filled in
ValueInitZero(payoff) == Matrix(payoff.nrow, payoff.ncol, LAMBDA i, j : 0)

\* value_matrix = np.zeros_like(payoff_matrix); value_matrix[:, -1] = payoff_matrix[:, -1]
ValueInit(payoff) ==
    Matrix(payoff.nrow, payoff.ncol,
           LAMBDA i, j : IF j = payoff.ncol THEN payoff.a[i][j] ELSE 0)

\* fault: the held value is carried back without the one-step discount
DiscountedNot(value, d, t) == [i \in 1..value.nrow |-> value.a[i][t + 2]]

\* value_matrix[:, t + 1] * discount_factor, per path
Discounted(value, d, t) == [i \in 1..value.nrow |-> FxMul(value.a[i][t + 2], d)]

\* np.polyval(np.polyfit(x, y, deg), x): the least-squares fitted values, each
\* an exact fraction.  Degree 0 fits the mean of y; a degree of at least
\* (number of distinct x) - 1 interpolates the mean of y over the paths that
\* share the price (the fit is then rank deficient when deg + 1 exceeds that
\* number: np.polyfit warns and returns the minimum-norm solution, whose
\* fitted values are the same).  The inputs keep to these two cases.
ContinuationValue(x, y, deg) ==
    LET n == Len(x)
        same(i) == {j \in 1..n : x[j] = x[i]}
        RECURSIVE SumOver(_)
        SumOver(S) == IF S = {} THEN 0
                      ELSE LET j == CHOOSE k \in S : TRUE
                           IN  y[j] + SumOver(S \ {j})
    IN  IF deg = 0
        THEN [i \in 1..n |-> [num |-> SumTo(y, n), den |-> n]]
        ELSE IF deg + 1 >= Cardinality({x[i] : i \in 1..n})
        THEN [i \in 1..n |-> [num |-> SumOver(same(i)), den |-> Cardinality(same(i))]]
        ELSE CHOOSE fit \in {} : TRUE

\* fault: a path whose payoff equals the estimate is exercised
WhereTiesExercise(payoff, cont, held, t) ==
    [i \in 1..Len(held) |->
        IF payoff.a[i][t + 1] * cont[i].den >= cont[i].num
        THEN payoff.a[i][t + 1] ELSE held[i]]

\* np.where(payoff[:, t] > continuation_value, payoff[:, t], value[:, t+1] * d)
Where(payoff, cont, held, t) ==
    [i \in 1..Len(held) |->
        IF payoff.a[i][t + 1] * cont[i].den > cont[i].num
        THEN payoff.a[i][t + 1] ELSE held[i]]

\* fault: the iteration writes column t + 1 instead of column t
LsmcStepNextColumn(value, S, payoff, d, deg, t) ==
    LET x == [i \in 1..S.nrow |-> S.a[i][t + 1]]
        y == Discounted(value, d, t)
        col == Where(payoff, ContinuationValue(x, y, deg), y, t)
    IN  Matrix(value.nrow, value.ncol,
               LAMBDA i, j : IF j = t + 2 THEN col[i] ELSE value.a[i][j])

\* fault: the held values are discounted in place, in column t + 1
LsmcStepInPlace(value, S, payoff, d, deg, t) ==
    LET x == [i \in 1..S.nrow |-> S.a[i][t + 1]]
        y == Discounted(value, d, t)
        col == Where(payoff, ContinuationValue(x, y, deg), y, t)
    IN  Matrix(value.nrow, value.ncol,
               LAMBDA i, j : IF j = t + 1 THEN col[i]
                             ELSE IF j = t + 2 THEN y[i] ELSE value.a[i][j])

\* one iteration of the backward induction, for column t
LsmcStep(value, S, payoff, d, deg, t) ==
    LET x == [i \in 1..S.nrow |-> S.a[i][t + 1]]
        y == Discounted(value, d, t)
        col == Where(payoff, ContinuationValue(x, y, deg), y, t)
    IN  Matrix(value.nrow, value.ncol,
               LAMBDA i, j : IF j = t + 1 THEN col[i] ELSE value.a[i][j])

\* fault: the mean of value_matrix[:, 1] is not discounted
OptionPremiumUndiscounted(value, d) ==
    [num |-> SumTo([i \in 1..value.nrow |-> value.a[i][2]], value.nrow),
     den |-> value.nrow]

\* np.mean(value_matrix[:, 1] * discount_factor)
OptionPremium(value, d) ==
    [num |-> SumTo([i \in 1..value.nrow |-> FxMul(value.a[i][2], d)], value.nrow),
     den |-> value.nrow]

\* ---------------------------------------------------------------- European MC
\* S_T = S_0 * np.exp((r - 0.5 * sigma**2) * T + sigma * np.sqrt(T) * rv)
TerminalPrice(S_0, r, sigma, T, rv) ==
    [i \in 1..Len(rv) |->
        S_0 * Exp2((2 * r - sigma * sigma) * T + 2 * sigma * Sqrt(T) * rv[i])]

\* np.maximum(0, S_T - K) for a call, np.maximum(0, K - S_T) for a put
TerminalPayoff(S_T, K, type) ==
    [i \in 1..Len(S_T) |->
        IF type = "call" THEN Max(0, S_T[i] - Fx(K)) ELSE Max(0, Fx(K) - S_T[i])]

\* np.mean(payoff) * np.exp(-r * T)
EuropeanPremium(payoff, r, T) ==
    [num |-> SumTo(payoff, Len(payoff)) * Exp2(0 - 2 * r * T),
     den |-> Len(payoff) * 100]

\* ---------------------------------------------------------------- Black-Scholes
\* np.log(S_0 / K) as a doubled exponent on the lattice of Exp2, rounded down
Log2(S_0, K) ==
    CHOOSE h \in (0 - 8)..8 : Exp2(h) * K <= 100 * S_0 /\ 100 * S_0 < Exp2(h + 1) * K

\* d1 = (np.log(S_0 / K) + (r + 0.5 * sigma ** 2) * T) / (sigma * np.sqrt(T)),
\* in halves, rounded down (sigma > 0 and T > 0 in the inputs)
D1(S_0, K, T, r, sigma) ==
    (Log2(S_0, K) + (2 * r + sigma * sigma) * T) \div (sigma * Sqrt(T))

\* d2 = (np.log(S_0 / K) + (r - 0.5 * sigma ** 2) * T) / (sigma * np.sqrt(T))
D2(S_0, K, T, r, sigma) ==
    (Log2(S_0, K) + (2 * r - sigma * sigma) * T) \div (sigma * Sqrt(T))

\* norm.cdf(k/2, 0, 1) as a fixed-point amount
RECURSIVE NormCdf(_)
NormCdf(k) ==
    IF k < 0 THEN 100 - NormCdf(0 - k)
    ELSE IF k >= 6 THEN 100
    ELSE <<50, 69, 84, 93, 98, 99>>[k + 1]

\* fault: every type other than 'call' is priced as a put
TypeBranchPutDefault(type) == IF type = "call" THEN "call" ELSE "put"

\* if type == 'call': ... elif type == 'put': ... else: raise
TypeBranch(type) ==
    IF type = "call" THEN "call" ELSE IF type = "put" THEN "put" ELSE "else"

\* S_0 * norm.cdf(d1) - K * np.exp(-r * T) * norm.cdf(d2) for a call,
\* K * np.exp(-r * T) * norm.cdf(-d2) - S_0 * norm.cdf(-d1) for a put
BlackScholesValue(S_0, K, T, r, sigma, branch) ==
    LET d1 == D1(S_0, K, T, r, sigma)
        d2 == D2(S_0, K, T, r, sigma)
        strike == FxMul(Fx(K), Exp2(0 - 2 * r * T))
    IN  IF branch = "call"
        THEN FxMul(Fx(S_0), NormCdf(d1)) - FxMul(strike, NormCdf(d2))
        ELSE FxMul(strike, NormCdf(0 - d2)) - FxMul(Fx(S_0), NormCdf(0 - d1))

\* ---------------------------------------------------------------- state
VARIABLES
    pc,              \* position of the running call; "idle" between calls
    fn,              \* the function called from the top level
    args,            \* its arguments
    rng,             \* state of the process-wide np.random generator
    steps,           \* simulation steps the running call has executed so far
    dt,              \* time increment T/N
    dW,              \* noise increments
    S_t,             \* simulated prices (gbm_simulations, S_T)
    discount_factor, \* one-step discount factor
    payoff_matrix,
    value_matrix,
    t,               \* loop variable of the backward induction
    option_premium,  \* returned premium, a fraction
    exc,             \* the exception raised, "" if none
    prev,            \* outcome of the previous call, when it is kept for comparison
    entry_rng,       \* generator state found by the running call when it started
    other,           \* a second invocation of simulate_gbm, run concurrently
    bt               \* the backtest of BBand_Strategy: broker, position, bar

vars == <<pc, fn, args, rng, steps, dt, dW, S_t, discount_factor,
          payoff_matrix, value_matrix, t, option_premium, exc, prev,
          entry_rng, other, bt>>

NoPremium == [num |-> 0, den |-> 0]
NoArgs == [s_0 |-> 0, mu |-> 0, sigma |-> 0, n_sims |-> 0, T |-> 0, N |-> 0,
           random_seed |-> 0, antithetic_var |-> FALSE,
           K |-> 0, option_type |-> "", poly_degree |-> 0]
NoOutcome == [status |-> "", exc |-> "", matrix |-> NoMatrix, premium |-> NoPremium]
NoPrev == [set |-> FALSE, fn |-> "", args |-> NoArgs, outcome |-> NoOutcome]

\* no second invocation, no backtest
NoInvocation == [pc |-> "idle", args |-> NoArgs, dt |-> 0, dW |-> NoMatrix, S_t |-> NoMatrix]
NoBacktest == [pc |-> "off"]

\* what the finished call handed to its caller
Outcome ==
    [status |-> pc, exc |-> exc,
     matrix |-> IF fn = "simulate_gbm" /\ pc = "returned" THEN S_t ELSE NoMatrix,
     premium |-> option_premium]

\* ---------------------------------------------------------------- inputs
SeedSet == {0, 1, 42}
OptionTypes == {"call", "put", "straddle"}
PolyDegrees == {0, 5}

\* <<T, N>>: every N from -2 up, with T/N in {-1, 0, 1}; N = 0 divides by zero
Horizons ==
    {<<q * n, n>> : n \in ((0 - 2)..MaxN) \ {0}, q \in {0 - 1, 0, 1}} \cup {<<1, 0>>}

GbmArgs ==
    {[s_0 |-> 10, mu |-> m, sigma |-> sg, n_sims |-> n, T |-> h[1], N |-> h[2],
      random_seed |-> sd, antithetic_var |-> av,
      K |-> 0, option_type |-> "", poly_degree |-> 0] :
        m \in {0, 1}, sg \in {0 - 1, 0, 1}, n \in (0 - 1)..MaxSims,
        h \in Horizons, sd \in SeedSet, av \in BOOLEAN}

\* the pricers are called with valid market parameters and any option type
LsmcArgs ==
    {[s_0 |-> 10, mu |-> r, sigma |-> sg, n_sims |-> n, T |-> n_steps, N |-> n_steps,
      random_seed |-> sd, antithetic_var |-> FALSE,
      K |-> 11, option_type |-> ty, poly_degree |-> deg] :
        r \in {0, 1}, sg \in {0, 1}, n \in 1..MaxSims, n_steps \in 1..MaxSteps,
        sd \in SeedSet, ty \in OptionTypes, deg \in PolyDegrees}

EuropeanArgs ==
    {[s_0 |-> 10, mu |-> r, sigma |-> sg, n_sims |-> n, T |-> 1, N |-> 0,
      random_seed |-> sd, antithetic_var |-> FALSE,
      K |-> 11, option_type |-> ty, poly_degree |-> 0] :
        r \in {0, 1}, sg \in {0, 1}, n \in 1..MaxSims,
        sd \in SeedSet, ty \in OptionTypes}

\* the closed form is evaluated with a positive volatility and maturity
BlackScholesArgs ==
    {[s_0 |-> 10, mu |-> r, sigma |-> sg, n_sims |-> 0, T |-> 1, N |-> 0,
      random_seed |-> 0, antithetic_var |-> FALSE,
      K |-> 11, option_type |-> ty, poly_degree |-> 0] :
        r \in {0, 1}, sg \in {1, 2}, ty \in OptionTypes}

\* ---------------------------------------------------------------- actions
Cleared ==
    /\ steps' = {}
    /\ dt' = 0
    /\ dW' = NoMatrix
    /\ S_t' = NoMatrix
    /\ discount_factor' = 0
    /\ payoff_matrix' = NoMatrix
    /\ value_matrix' = NoMatrix
    /\ t' = 0
    /\ option_premium' = NoPremium
    /\ exc' = ""

Init ==
    /\ pc = "idle"
    /\ fn = ""
    /\ args = NoArgs
    /\ rng \in RngStates
    /\ steps = {}
    /\ dt = 0
    /\ dW = NoMatrix
    /\ S_t = NoMatrix
    /\ discount_factor = 0
    /\ payoff_matrix = NoMatrix
    /\ value_matrix = NoMatrix
    /\ t = 0
    /\ option_premium = NoPremium
    /\ exc = ""
    /\ prev = NoPrev
    /\ entry_rng = 0
    /\ other = NoInvocation
    /\ bt = NoBacktest

Raise(e) ==
    /\ pc' = "raised"
    /\ exc' = e

\* simulate_gbm(...) up to and including np.random.seed(random_seed)
CallSimulateGbm(a) ==
    /\ pc = "idle"
    /\ fn' = "simulate_gbm"
    /\ args' = a
    /\ rng' = Reseed(rng, a.random_seed)
    /\ steps' = {"seed"}
    /\ pc' = "gbm_dt"
    /\ UNCHANGED <<dt, dW, S_t, discount_factor, payoff_matrix,
                   value_matrix, t, option_premium, exc, prev>>

\* lsmc_american_option(...): dt, discount_factor, then the call of
\* simulate_gbm up to and including its np.random.seed(random_seed)
CallLsmc(a) ==
    /\ pc = "idle"
    /\ fn' = "lsmc_american_option"
    /\ args' = a
    /\ dt' = TrueDiv(a.T, a.N)
    /\ discount_factor' = DiscountFactor(a.mu, TrueDiv(a.T, a.N))
    /\ rng' = Reseed(rng, a.random_seed)
    /\ steps' = {"seed"}
    /\ pc' = "gbm_dt"
    /\ UNCHANGED <<dW, S_t, payoff_matrix, value_matrix, t,
                   option_premium, exc, prev>>

\* simulate_gbm: dt = T/N
GbmDt ==
    /\ pc = "gbm_dt"
    /\ IF args.N = 0
       THEN Raise("ZeroDivisionError: division by zero") /\ UNCHANGED dt
       ELSE pc' = "gbm_draw" /\ dt' = TrueDiv(args.T, args.N) /\ UNCHANGED exc
    /\ UNCHANGED <<fn, args, rng, steps, dW, S_t, discount_factor,
                   payoff_matrix, value_matrix, t, option_premium, prev>>

\* simulate_gbm: the draw of dW (plain or antithetic)
GbmDraw ==
    /\ pc = "gbm_draw"
    /\ LET rows == DrawRows(args.n_sims, args.antithetic_var)
           cols == args.N + 1
       IN  IF rows < 0 \/ cols < 0
           THEN /\ Raise("ValueError: negative dimensions are not allowed")
                /\ UNCHANGED <<rng, steps, dW>>
           ELSE /\ dW' = Brownian(rng, args.n_sims, args.N, dt, args.antithetic_var)
                /\ rng' = RngAt(rng, rows * cols)
                /\ steps' = steps \cup {"draw"}
                /\ pc' = "gbm_paths"
                /\ UNCHANGED exc
    /\ UNCHANGED <<fn, args, dt, S_t, discount_factor, payoff_matrix,
                   value_matrix, t, option_premium, prev>>

\* simulate_gbm: the price matrix, its first column, and the return
GbmPaths ==
    /\ pc = "gbm_paths"
    /\ steps' = steps \cup {"paths"}
    /\ IF dW.ncol = 0
       THEN /\ Raise("IndexError: index 0 is out of bounds for axis 1 with size 0")
            /\ S_t' = GbmExp(args.s_0, args.mu, args.sigma, dt, dW)
       ELSE /\ S_t' = FirstColumn(GbmExp(args.s_0, args.mu, args.sigma, dt, dW),
                                  args.s_0)
            /\ pc' = IF fn = "simulate_gbm" THEN "returned" ELSE "lsmc_payoff"
            /\ UNCHANGED exc
    /\ UNCHANGED <<fn, args, rng, dt, dW, discount_factor,
                   payoff_matrix, value_matrix, t, option_premium, prev>>

\* lsmc_american_option: payoff_matrix (no branch for another option type),
\* value_matrix and its last column
LsmcPayoff ==
    /\ pc = "lsmc_payoff"
    /\ IF args.option_type \in {"call", "put"}
       THEN /\ payoff_matrix' = PayoffMatrix(S_t, args.K, args.option_type)
            /\ value_matrix' = ValueInit(PayoffMatrix(S_t, args.K, args.option_type))
            /\ t' = args.N - 1
            /\ pc' = "lsmc_loop"
            /\ UNCHANGED exc
       ELSE /\ Raise("UnboundLocalError: local variable 'payoff_matrix' referenced before assignment")
            /\ UNCHANGED <<payoff_matrix, value_matrix, t>>
    /\ UNCHANGED <<fn, args, rng, steps, dt, dW, S_t, discount_factor,
                   option_premium, prev>>

\* fault: the value matrix is the payoff matrix itself, so that an iteration
\* writes both
LsmcIterateAliased ==
    /\ pc = "lsmc_loop"
    /\ t >= 1
    /\ value_matrix' = LsmcStep(value_matrix, S_t, payoff_matrix, discount_factor,
                                args.poly_degree, t)
    /\ payoff_matrix' = value_matrix'
    /\ t' = t - 1
    /\ UNCHANGED <<pc, fn, args, rng, steps, dt, dW, S_t,
                   discount_factor, option_premium, exc, prev>>

\* lsmc_american_option: one iteration of for t in range(N - 1, 0, -1)
LsmcIterate ==
    /\ pc = "lsmc_loop"
    /\ t >= 1
    /\ value_matrix' = LsmcStep(value_matrix, S_t, payoff_matrix, discount_factor,
                                args.poly_degree, t)
    /\ t' = t - 1
    /\ UNCHANGED <<pc, fn, args, rng, steps, dt, dW, S_t,
                   discount_factor, payoff_matrix, option_premium, exc, prev>>

\* lsmc_american_option: the premium, once the loop is exhausted
LsmcPremium ==
    /\ pc = "lsmc_loop"
    /\ t < 1
    /\ option_premium' = OptionPremium(value_matrix, discount_factor)
    /\ pc' = "returned"
    /\ UNCHANGED <<fn, args, rng, steps, dt, dW, S_t, discount_factor,
                   payoff_matrix, value_matrix, t, exc, prev>>

\* european_option_simulation(...) up to and including np.random.seed(random_seed)
CallEuropean(a) ==
    /\ pc = "idle"
    /\ fn' = "european_option_simulation"
    /\ args' = a
    /\ rng' = Reseed(rng, a.random_seed)
    /\ steps' = {"seed"}
    /\ pc' = "euro_draw"
    /\ UNCHANGED <<dt, dW, S_t, discount_factor, payoff_matrix,
                   value_matrix, t, option_premium, exc, prev>>

\* european_option_simulation: rv and S_T
EuroDraw ==
    /\ pc = "euro_draw"
    /\ dW' = Normal(rng, 1, args.n_sims, 1)
    /\ rng' = RngAt(rng, args.n_sims)
    /\ LET rv == [i \in 1..args.n_sims |-> Noise(RngAt(rng, i))]
           S_T == TerminalPrice(args.s_0, args.mu, args.sigma, args.T, rv)
       IN  S_t' = Matrix(args.n_sims, 1, LAMBDA i, j : S_T[i])
    /\ steps' = steps \cup {"draw", "paths"}
    /\ pc' = "euro_payoff"
    /\ UNCHANGED <<fn, args, dt, discount_factor, payoff_matrix,
                   value_matrix, t, option_premium, exc, prev>>

\* european_option_simulation: the type branch, payoff and premium
EuroPayoff ==
    /\ pc = "euro_payoff"
    /\ IF args.option_type \in {"call", "put"}
       THEN LET S_T == [i \in 1..S_t.nrow |-> S_t.a[i][1]]
                payoff == TerminalPayoff(S_T, args.K, args.option_type)
            IN  /\ payoff_matrix' = Matrix(S_t.nrow, 1, LAMBDA i, j : payoff[i])
                /\ option_premium' = EuropeanPremium(payoff, args.mu, args.T)
                /\ pc' = "returned"
                /\ UNCHANGED exc
       ELSE /\ Raise("ValueError: Wrong input for type!")
            /\ UNCHANGED <<payoff_matrix, option_premium>>
    /\ UNCHANGED <<fn, args, rng, steps, dt, dW, S_t, discount_factor,
                   value_matrix, t, prev>>

\* black_scholes_analytical(...): d1 and d2, computed before the type is looked at
CallBlackScholes(a) ==
    /\ pc = "idle"
    /\ fn' = "black_scholes_analytical"
    /\ args' = a
    /\ pc' = "bs_branch"
    /\ UNCHANGED <<rng, steps, dt, dW, S_t, discount_factor, payoff_matrix,
                   value_matrix, t, option_premium, exc, prev>>

\* black_scholes_analytical: the type branch and the return
BlackScholesBranch ==
    /\ pc = "bs_branch"
    /\ IF TypeBranch(args.option_type) = "else"
       THEN /\ Raise("ValueError: Wrong input for type!")
            /\ UNCHANGED option_premium
       ELSE /\ option_premium' =
                   [num |-> BlackScholesValue(args.s_0, args.K, args.T, args.mu,
                                              args.sigma, TypeBranch(args.option_type)),
                    den |-> 1]
            /\ pc' = "returned"
            /\ UNCHANGED exc
    /\ UNCHANGED <<fn, args, rng, steps, dt, dW, S_t, discount_factor,
                   payoff_matrix, value_matrix, t, prev>>

\* the caller takes the outcome and drops it
Return ==
    /\ pc \in {"returned", "raised"}
    /\ pc' = "idle"
    /\ fn' = ""
    /\ args' = NoArgs
    /\ Cleared
    /\ prev' = NoPrev
    /\ UNCHANGED rng

\* the caller keeps the outcome to compare it with that of the next call
Keep ==
    /\ pc \in {"returned", "raised"}
    /\ ~prev.set
    /\ pc' = "idle"
    /\ fn' = ""
    /\ args' = NoArgs
    /\ Cleared
    /\ prev' = [set |-> TRUE, fn |-> fn, args |-> args, outcome |-> Outcome]
    /\ UNCHANGED rng

\* other code of the session seeds the process-wide generator
AmbientSeed(s) ==
    /\ pc = "idle"
    /\ rng' = SeedState(s)
    /\ UNCHANGED <<pc, fn, args, steps, dt, dW, S_t, discount_factor,
                   payoff_matrix, value_matrix, t, option_premium, exc, prev>>

\* other code of the session draws from the process-wide generator
AmbientDraw ==
    /\ pc = "idle"
    /\ rng' = NextRng(rng)
    /\ UNCHANGED <<pc, fn, args, steps, dt, dW, S_t, discount_factor,
                   payoff_matrix, value_matrix, t, option_premium, exc, prev>>

\* a call that follows a kept outcome repeats the call that gave it
CallAgain ==
    /\ prev.set
    /\ \/ prev.fn = "simulate_gbm" /\ CallSimulateGbm(prev.args)
       \/ prev.fn = "lsmc_american_option" /\ CallLsmc(prev.args)
       \/ prev.fn = "european_option_simulation" /\ CallEuropean(prev.args)
       \/ prev.fn = "black_scholes_analytical" /\ CallBlackScholes(prev.args)

\* a notebook session: one pricing call at a time, nothing else running
Sequential == UNCHANGED <<entry_rng, other, bt>>

Next ==
    \/ ~prev.set /\ (\E a \in GbmArgs : CallSimulateGbm(a)) /\ Sequential
    \/ ~prev.set /\ (\E a \in LsmcArgs : CallLsmc(a)) /\ Sequential
    \/ ~prev.set /\ (\E a \in EuropeanArgs : CallEuropean(a)) /\ Sequential
    \/ ~prev.set /\ (\E a \in BlackScholesArgs : CallBlackScholes(a)) /\ Sequential
    \/ CallAgain /\ Sequential
    \/ GbmDt /\ Sequential
    \/ GbmDraw /\ Sequential
    \/ GbmPaths /\ Sequential
    \/ LsmcPayoff /\ Sequential
    \/ LsmcIterate /\ Sequential
    \/ LsmcPremium /\ Sequential
    \/ EuroDraw /\ Sequential
    \/ EuroPayoff /\ Sequential
    \/ BlackScholesBranch /\ Sequential
    \/ Return /\ Sequential
    \/ Keep /\ Sequential
    \/ (\E s \in SeedSet : AmbientSeed(s)) /\ Sequential
    \/ AmbientDraw /\ Sequential

Spec == Init /\ [][Next]_vars

\* ---------------------------------------------------------------- frame of a call
\* simulate_gbm called with valid parameters
ValidGbmArgs ==
    {a \in GbmArgs : a.sigma >= 0 /\ a.T > 0 /\ a.n_sims >= 1 /\ a.N >= 1}

\* a call starts: the generator state it finds is recorded
Entered == entry_rng' = rng /\ UNCHANGED <<other, bt>>

\* the caller has the outcome: the record is dropped
Left == entry_rng' = 0 /\ UNCHANGED <<other, bt>>

\* pricing calls made one after the other from any state of the generator,
\* each with the generator state it found kept for comparison
FrameNext ==
    \/ (\E a \in ValidGbmArgs : CallSimulateGbm(a)) /\ Entered
    \/ (\E a \in LsmcArgs : CallLsmc(a)) /\ Entered
    \/ (\E a \in EuropeanArgs : CallEuropean(a)) /\ Entered
    \/ GbmDt /\ Sequential
    \/ GbmDraw /\ Sequential
    \/ GbmPaths /\ Sequential
    \/ LsmcPayoff /\ Sequential
    \/ LsmcIterate /\ Sequential
    \/ LsmcPremium /\ Sequential
    \/ EuroDraw /\ Sequential
    \/ EuroPayoff /\ Sequential
    \/ Return /\ Left

FrameSpec == Init /\ [][FrameNext]_vars

\* ---------------------------------------------------------------- two invocations
\* the first invocation runs in pc, args, dt, dW, S_t; the second one in the
\* record other; both seed and draw from the one process-wide generator
ConcurrentArgs == {a \in ValidGbmArgs : a.mu = 0 /\ a.sigma = 1 /\ a.N = 1}

\* the locals of the first invocation
first == <<pc, fn, args, steps, dt, dW, S_t, discount_factor, payoff_matrix,
           value_matrix, t, option_premium, exc, prev>>

\* second invocation: simulate_gbm(...) up to and including np.random.seed
OtherCall(a) ==
    /\ other.pc = "idle"
    /\ other' = [NoInvocation EXCEPT !.pc = "gbm_dt", !.args = a]
    /\ rng' = Reseed(rng, a.random_seed)
    /\ UNCHANGED first

\* second invocation: dt = T/N
OtherDt ==
    /\ other.pc = "gbm_dt"
    /\ other' = IF other.args.N = 0
                THEN [other EXCEPT !.pc = "raised"]
                ELSE [other EXCEPT !.pc = "gbm_draw",
                                   !.dt = TrueDiv(other.args.T, other.args.N)]
    /\ UNCHANGED rng
    /\ UNCHANGED first

\* second invocation: the draw of dW
OtherDraw ==
    /\ other.pc = "gbm_draw"
    /\ LET a == other.args
           rows == DrawRows(a.n_sims, a.antithetic_var)
           cols == a.N + 1
       IN  IF rows < 0 \/ cols < 0
           THEN other' = [other EXCEPT !.pc = "raised"] /\ UNCHANGED rng
           ELSE /\ other' = [other EXCEPT
                       !.pc = "gbm_paths",
                       !.dW = Brownian(rng, a.n_sims, a.N, other.dt, a.antithetic_var)]
                /\ rng' = RngAt(rng, rows * cols)
    /\ UNCHANGED first

\* second invocation: the price matrix, its first column, and the return
OtherPaths ==
    /\ other.pc = "gbm_paths"
    /\ LET a == other.args
           S == GbmExp(a.s_0, a.mu, a.sigma, other.dt, other.dW)
       IN  other' = IF other.dW.ncol = 0
                    THEN [other EXCEPT !.pc = "raised", !.S_t = S]
                    ELSE [other EXCEPT !.pc = "returned", !.S_t = FirstColumn(S, a.s_0)]
    /\ UNCHANGED rng
    /\ UNCHANGED first

\* the caller of the second invocation takes its outcome
OtherReturn ==
    /\ other.pc \in {"returned", "raised"}
    /\ other' = NoInvocation
    /\ UNCHANGED rng
    /\ UNCHANGED first

ConcurrentNext ==
    \/ (\E a \in ConcurrentArgs : CallSimulateGbm(a)) /\ Sequential
    \/ GbmDt /\ fn = "simulate_gbm" /\ Sequential
    \/ GbmDraw /\ Sequential
    \/ GbmPaths /\ Sequential
    \/ Return /\ Sequential
    \/ (\E a \in ConcurrentArgs : OtherCall(a)) /\ UNCHANGED <<entry_rng, bt>>
    \/ OtherDt /\ UNCHANGED <<entry_rng, bt>>
    \/ OtherDraw /\ UNCHANGED <<entry_rng, bt>>
    \/ OtherPaths /\ UNCHANGED <<entry_rng, bt>>
    \/ OtherReturn /\ UNCHANGED <<entry_rng, bt>>

ConcurrentSpec == Init /\ [][ConcurrentNext]_vars

\* ---------------------------------------------------------------- BBand_Strategy
\* The backtest of BT-BollingerBands: cerebro runs the strategy over the bars
\* of the data feed with cheat_on_open, so an order created in next_open is
\* executed by the broker at the open of the same bar.  Money is in cents.
\* bt = [pc, n, cash, position, open, buy_signal, sell_signal, order, status,
\*       self_order]: order is the order the broker holds, self_order the
\* strategy's field self.order

\* cerebro.broker.setcash(10000.0)
StartCash == 1000000

\* cerebro.broker.setcommission(commission=0.001): per mille of the trade value
CommissionPerMille == 1

\* open prices of a bar, in cents
Opens == {8874, 10000, 10891}

\* value of bt.ind.CrossOver on a bar
Signals == {0 - 1, 0, 1}

NoOrder == [kind |-> "none", size |-> 0]

\* the broker's commission on a trade of the given value
Commission(value) == (value * CommissionPerMille) \div 1000

\* self.position is true when its size is not zero
Holding(position) == position # 0

\* size = int(self.broker.getcash() / self.datas[0].open)
BuySize(cash, open) == cash \div open

\* fault: a fixed lot is sold
SellSizeLot(position) == 100

\* self.sell(size=self.position.size)
SellSize(position) == position

\* cerebro.run() starts: the broker holds the starting cash and no position;
\* BBand_Strategy.__init__ sets self.order = None
BtStart ==
    /\ bt.pc = "off"
    /\ bt' = [pc |-> "bar", n |-> 0, cash |-> StartCash, position |-> 0,
              open |-> 0, buy_signal |-> 0, sell_signal |-> 0,
              order |-> NoOrder, status |-> "", self_order |-> "None"]

\* the data feed delivers the next bar, the indicators their values on it
BtBar(open, buy_signal, sell_signal) ==
    /\ bt.pc = "bar"
    /\ bt.n < MaxBars
    /\ bt' = [bt EXCEPT !.pc = "next_open", !.n = @ + 1, !.open = open,
                        !.buy_signal = buy_signal, !.sell_signal = sell_signal,
                        !.status = ""]

\* BBand_Strategy.next_open; self.buy and self.sell create no order of size 0,
\* and the order they return is not assigned to self.order
next_open ==
    /\ bt.pc = "next_open"
    /\ bt' = [bt EXCEPT
                !.pc = "broker",
                !.order =
                    IF ~Holding(bt.position)
                    THEN IF bt.buy_signal > 0 /\ BuySize(bt.cash, bt.open) # 0
                         THEN [kind |-> "buy", size |-> BuySize(bt.cash, bt.open)]
                         ELSE NoOrder
                    ELSE IF bt.sell_signal < 0 /\ SellSize(bt.position) # 0
                         THEN [kind |-> "sell", size |-> SellSize(bt.position)]
                         ELSE NoOrder]

\* the broker executes the order at the open of the bar, or refuses a buy the
\* cash does not pay for (status Margin); notify_order logs the outcome and
\* sets self.order = None
BtBroker ==
    /\ bt.pc = "broker"
    /\ LET value == bt.order.size * bt.open
           comm == Commission(value)
       IN  bt' = IF bt.order.kind = "buy"
                 THEN IF value + comm > bt.cash
                      THEN [bt EXCEPT !.pc = "bar", !.order = NoOrder,
                                      !.status = "Margin",
                                      !.self_order = "None"]
                      ELSE [bt EXCEPT !.pc = "bar", !.order = NoOrder,
                                      !.status = "Completed",
                                      !.self_order = "None",
                                      !.cash = @ - value - comm,
                                      !.position = @ + bt.order.size]
                 ELSE IF bt.order.kind = "sell"
                 THEN [bt EXCEPT !.pc = "bar", !.order = NoOrder,
                                 !.status = "Completed",
                                 !.self_order = "None",
                                 !.cash = @ + value - comm,
                                 !.position = @ - bt.order.size]
                 ELSE [bt EXCEPT !.pc = "bar"]

\* the data feed is exhausted: cerebro.run() returns
BtStop ==
    /\ bt.pc = "bar"
    /\ bt.n = MaxBars
    /\ bt' = [bt EXCEPT !.pc = "done"]

\* the pricing notebooks are not running
NoPricing == UNCHANGED <<first, rng, entry_rng, other>>

BacktestNext ==
    \/ BtStart /\ NoPricing
    \/ (\E open \in Opens, b \in Signals, sl \in Signals : BtBar(open, b, sl)) /\ NoPricing
    \/ next_open /\ NoPricing
    \/ BtBroker /\ NoPricing
    \/ BtStop /\ NoPricing

\* the notebook session before cerebro.run()
BacktestInit == Init /\ rng = 0

BacktestSpec == BacktestInit /\ [][BacktestNext]_vars

\* ---------------------------------------------------------------- volatility
\* a pricer is called, its premium kept, and the call repeated with a larger
\* volatility and everything else as before
CallMoreVolatile ==
    /\ prev.set
    /\ LET a == [prev.args EXCEPT !.sigma = @ + 1]
       IN  \/ prev.fn = "lsmc_american_option" /\ a \in LsmcArgs /\ CallLsmc(a)
           \/ prev.fn = "black_scholes_analytical" /\ a \in BlackScholesArgs
                  /\ CallBlackScholes(a)

VolatilityNext ==
    \/ ~prev.set /\ (\E a \in LsmcArgs : CallLsmc(a)) /\ Sequential
    \/ ~prev.set /\ (\E a \in BlackScholesArgs : CallBlackScholes(a)) /\ Sequential
    \/ CallMoreVolatile /\ Sequential
    \/ GbmDt /\ Sequential
    \/ GbmDraw /\ Sequential
    \/ GbmPaths /\ Sequential
    \/ LsmcPayoff /\ Sequential
    \/ LsmcIterate /\ Sequential
    \/ LsmcPremium /\ Sequential
    \/ BlackScholesBranch /\ Sequential
    \/ Return /\ Sequential
    \/ Keep /\ Sequential

VolatilityInit == Init /\ rng = 0

VolatilitySpec == VolatilityInit /\ [][VolatilityNext]_vars

\* ---------------------------------------------------------------- properties
\* simulate_gbm has handed a matrix with at least one column to its caller
GbmReturned ==
    /\ fn \in {"simulate_gbm", "lsmc_american_option"}
    /\ "paths" \in steps
    /\ S_t.ncol > 0

Finished == pc \in {"returned", "raised"}

\* C1: every row of the matrix simulate_gbm returns has entry [i,0] equal to
\* s_0 exactly, in plain and in antithetic mode, whatever noise column 0 drew.
C1_FirstColumnIsS0 ==
    GbmReturned => \A i \in 1..S_t.nrow : S_t.a[i][1] = Fx(args.s_0)

\* C1 witness: a returned matrix whose first column was simulated away from s_0
C1_Witness ==
    /\ GbmReturned
    /\ args.antithetic_var
    /\ \E i \in 1..S_t.nrow :
          /\ dW.a[i][1] # 0
          /\ GbmExp(args.s_0, args.mu, args.sigma, dt, dW).a[i][1] # Fx(args.s_0)
          /\ S_t.a[i][1] = Fx(args.s_0)

\* the value matrix exists: the backward induction is running or has returned
ValueInitialised ==
    /\ fn = "lsmc_american_option"
    /\ pc = "lsmc_loop" \/ pc = "returned"

\* C2: from the initialisation of the value matrix to the state in which the
\* premium is computed, value[i,N] = payoff[i,N] for every path i.
C2_TerminalColumn ==
    ValueInitialised =>
        \A i \in 1..value_matrix.nrow :
            value_matrix.a[i][args.N + 1] = payoff_matrix.a[i][args.N + 1]

\* C2 witness: a premium computed after at least one iteration, with a path
\* in the money at maturity
C2_Witness ==
    /\ fn = "lsmc_american_option"
    /\ pc = "returned"
    /\ args.N >= 2
    /\ \E i \in 1..payoff_matrix.nrow : payoff_matrix.a[i][args.N + 1] > 0

\* C3: the premium lsmc_american_option returns is the mean over all paths of
\* value[i,1], each multiplied by one one-step discount factor exp(-r*T/N).
C3_PremiumIsDiscountedMean ==
    (fn = "lsmc_american_option" /\ pc = "returned") =>
        LET d == Exp2(0 - 2 * args.mu * (args.T \div args.N))
        IN  /\ option_premium.den = args.n_sims
            /\ option_premium.num =
                   SumTo([i \in 1..args.n_sims |->
                             (value_matrix.a[i][2] * d) \div 100], args.n_sims)

\* C3 witness: a positive premium returned with a discount factor below one
C3_Witness ==
    /\ fn = "lsmc_american_option"
    /\ pc = "returned"
    /\ args.mu = 1
    /\ args.N >= 2
    /\ option_premium.num > 0

\* x discounted by k one-step factors
RECURSIVE DiscountedBy(_, _, _)
DiscountedBy(x, d, k) == IF k = 0 THEN x ELSE DiscountedBy(FxMul(x, d), d, k - 1)

\* numerator (over n_sims) of the European premium on the same paths:
\* exp(-r*T/N)^N times the mean of payoff[i,N]
EuropeanOnPaths ==
    SumTo([i \in 1..payoff_matrix.nrow |->
              DiscountedBy(payoff_matrix.a[i][args.N + 1], discount_factor, args.N)],
          payoff_matrix.nrow)

PutPriced ==
    /\ fn = "lsmc_american_option"
    /\ pc = "returned"
    /\ args.option_type = "put"

\* no path was exercised at a step where its payoff is below its own
\* discounted next-step value
ExerciseNotWorse ==
    \A i \in 1..value_matrix.nrow : \A c \in 1..(args.N - 1) :
        value_matrix.a[i][c + 1] >= FxMul(value_matrix.a[i][c + 2], discount_factor)

C5_AntitheticNegation ==
    (fn = "simulate_gbm" /\ args.antithetic_var /\ "draw" \in steps) =>
        LET h == HalfSims(args.n_sims)
        IN  /\ dW.nrow = 2 * h
            /\ \A i \in 1..h : \A c \in 1..dW.ncol :
                   dW.a[i + h][c] = Negate(dW.a[i][c])

\* C5 witness: an antithetic draw with a non-zero increment in the first half
C5_Witness ==
    /\ fn = "simulate_gbm"
    /\ args.antithetic_var
    /\ "draw" \in steps
    /\ \E i \in 1..HalfSims(args.n_sims) : \E c \in 1..dW.ncol :
          dW.a[i][c] > 0 /\ dW.a[i + HalfSims(args.n_sims)][c] < 0

GbmShapeCase ==
    /\ fn = "simulate_gbm"
    /\ pc = "returned"
    /\ args.n_sims >= 1
    /\ args.N >= 1

C8_SameArgumentsSameOutcome ==
    (Finished /\ prev.set) => Outcome = prev.outcome

\* C8 witness: a repeated simulate_gbm call returning a matrix with noise in it
C8_Witness ==
    /\ prev.set
    /\ pc = "returned"
    /\ fn = "simulate_gbm"
    /\ S_t.nrow >= 2
    /\ \E i \in 1..dW.nrow : \E c \in 1..dW.ncol : dW.a[i][c] # 0 /\ dW.a[i][c] # NaN

\* C9 as stated: simulate_gbm with n_sims <= 0, N <= 0, sigma < 0 or T <= 0
\* ends in an error and returns no matrix.
C9_InvalidConfigurationRaises ==
    (/\ fn = "simulate_gbm"
     /\ \/ args.n_sims <= 0
        \/ args.N <= 0
        \/ args.sigma < 0
        \/ args.T <= 0) => pc # "returned"

\* C10 as stated: a pricer called with an option type other than 'call' or
\* 'put' fails with a diagnostic naming the option type before any seeding,
\* draw or path-matrix creation.
C10_BadTypeFailsBeforeSimulation ==
    (/\ fn \in {"lsmc_american_option", "european_option_simulation"}
     /\ args.option_type \notin {"call", "put"}
     /\ Finished) =>
        /\ pc = "raised"
        /\ exc = "ValueError: Wrong input for type!"
        /\ steps = {}

\* C11: black_scholes_analytical and european_option_simulation return a
\* premium without error when type is 'call' or 'put'; for every other type
\* they raise ValueError('Wrong input for type!') and return nothing.
C11_TypeBranch ==
    (/\ fn \in {"black_scholes_analytical", "european_option_simulation"}
     /\ Finished) =>
        IF args.option_type \in {"call", "put"}
        THEN pc = "returned" /\ exc = "" /\ option_premium # NoPremium
        ELSE /\ pc = "raised"
             /\ exc = "ValueError: Wrong input for type!"
             /\ option_premium = NoPremium

\* C11 witness: the closed form has refused a type that is neither call nor put
C11_Witness ==
    /\ fn = "black_scholes_analytical"
    /\ args.option_type = "straddle"
    /\ pc = "raised"
    /\ exc = "ValueError: Wrong input for type!"

\* C12 as stated: with poly_degree at least the number of paths (a rank
\* deficient regression at every step of the backward induction)
\* lsmc_american_option returns no premium: the call ends in an error.
C12_SingularFitFails ==
    (/\ fn = "lsmc_american_option"
     /\ args.option_type \in {"call", "put"}
     /\ args.N >= 2
     /\ args.poly_degree >= args.n_sims
     /\ Finished) =>
        /\ pc = "raised"
        /\ option_premium = NoPremium

\* C13 as stated: when a call of simulate_gbm, lsmc_american_option or
\* european_option_simulation has finished, the process-wide generator is in
\* the state it was in when the call started.
C13_GeneratorStateRestored ==
    (/\ fn \in {"simulate_gbm", "lsmc_american_option", "european_option_simulation"}
     /\ Finished) => rng = entry_rng

\* the matrix simulate_gbm(a) returns when no other invocation runs
Alone(a) ==
    LET step == TrueDiv(a.T, a.N)
    IN  FirstColumn(GbmExp(a.s_0, a.mu, a.sigma, step,
                           Brownian(SeedState(a.random_seed), a.n_sims, a.N,
                                    step, a.antithetic_var)),
                    a.s_0)

\* C14 as stated: of two invocations of simulate_gbm whose seed and draw steps
\* interleave, each returns exactly the matrix it returns when run alone.
C14_ConcurrentAsAlone ==
    /\ (fn = "simulate_gbm" /\ pc = "returned") => S_t = Alone(args)
    /\ other.pc = "returned" => other.S_t = Alone(other.args)

\* the backtest is running
BtRunning == bt.pc # "off"

\* C15: in every state of a backtest the position size is >= 0; a buy order
\* exists only while no position is held, a sell order only while a position
\* is held, and the size of a sell order is the whole position.
C15_NoShortPosition ==
    BtRunning =>
        /\ bt.position >= 0
        /\ bt.order.kind = "buy" => bt.position = 0
        /\ bt.order.kind = "sell" => (bt.position > 0 /\ bt.order.size = bt.position)

\* C15 witness: a position bought earlier is being sold whole
C15_Witness ==
    /\ BtRunning
    /\ bt.pc = "broker"
    /\ bt.order.kind = "sell"
    /\ bt.position > 0
    /\ bt.order.size = bt.position

\* C16 as stated: every buy order is for the largest number of shares the
\* cash pays for at the open with the commission included, so that
\* size*open + commission <= cash, and no buy order fails for lack of cash.
C16_BuyAffordable ==
    BtRunning =>
        /\ bt.order.kind = "buy" =>
               /\ bt.order.size * bt.open + Commission(bt.order.size * bt.open) <= bt.cash
               /\ (bt.order.size + 1) * bt.open
                      + Commission((bt.order.size + 1) * bt.open) > bt.cash
        /\ bt.status # "Margin"

\* C19 as stated: with S_0, K, r, T, N, n_sims, seed and degree fixed, a
\* strictly larger sigma gives a strictly larger premium, for calls and puts,
\* from black_scholes_analytical and from lsmc_american_option.
C19_PremiumIncreasesWithSigma ==
    (/\ fn \in {"black_scholes_analytical", "lsmc_american_option"}
     /\ prev.set
     /\ prev.fn = fn
     /\ pc = "returned"
     /\ prev.outcome.status = "returned"
     /\ args.sigma > prev.args.sigma
     /\ args = [prev.args EXCEPT !.sigma = args.sigma]) =>
        option_premium.num * prev.outcome.premium.den
            > prev.outcome.premium.num * option_premium.den

\* C20: the backward induction starts at t = N-1, every iteration writes
\* column t alone and goes on to t-1, and the loop ends after the iteration
\* for t = 1 without another write: N-1 iterations, t = N-1, ..., 1 in that
\* order, each column written once and none again after a later iteration
\* has started.
C20_BackwardOrder ==
    [][fn = "lsmc_american_option" =>
          /\ (pc = "lsmc_payoff" /\ pc' = "lsmc_loop") => t' = args.N - 1
          /\ (pc = "lsmc_loop" /\ t >= 1) =>
                 /\ pc' = "lsmc_loop"
                 /\ t' = t - 1
                 /\ \A i \in 1..value_matrix.nrow : \A j \in 1..value_matrix.ncol :
                        j # t + 1 => value_matrix'.a[i][j] = value_matrix.a[i][j]
          /\ (pc = "lsmc_loop" /\ t < 1) =>
                 /\ t = 0
                 /\ pc' = "returned"
                 /\ value_matrix' = value_matrix]_vars

\* C20 witness: both iterations of a three-step induction are done, the
\* columns 2 and 1 written in that order, and the loop is about to end
C20_Witness ==
    /\ fn = "lsmc_american_option"
    /\ pc = "lsmc_loop"
    /\ args.N = 3
    /\ t = 0
    /\ args.mu = 1
    /\ \E i \in 1..value_matrix.nrow :
          value_matrix.a[i][2] > 0 /\ value_matrix.a[i][3] > 0

\* the columns of the value matrix the backward induction has written so far
Finalised == (t + 1)..(args.N - 1)

\* the regression's estimate at column c, from the prices at c and the
\* discounted values at c + 1
ContinuationAt(c) ==
    ContinuationValue([i \in 1..S_t.nrow |-> S_t.a[i][c + 1]],
                      [i \in 1..value_matrix.nrow |->
                          FxMul(value_matrix.a[i][c + 2], discount_factor)],
                      args.poly_degree)

\* path i's payoff at column c is strictly above the estimate
Exercised(i, c) ==
    payoff_matrix.a[i][c + 1] * ContinuationAt(c)[i].den > ContinuationAt(c)[i].num

\* path i's payoff at column c equals the estimate
Tied(i, c) ==
    payoff_matrix.a[i][c + 1] * ContinuationAt(c)[i].den = ContinuationAt(c)[i].num

\* C21: for every written column t in 1..N-1 and every path i, value[i,t] is
\* payoff[i,t] when payoff[i,t] is strictly greater than the estimated
\* continuation value at path i, and value[i,t+1] * exp(-r*T/N) otherwise; a
\* path whose payoff equals the estimate holds.
C21_ExerciseRule ==
    ValueInitialised =>
        \A c \in Finalised : \A i \in 1..value_matrix.nrow :
            value_matrix.a[i][c + 1] =
                IF Exercised(i, c)
                THEN payoff_matrix.a[i][c + 1]
                ELSE FxMul(value_matrix.a[i][c + 2], discount_factor)

\* C21 witness: a path whose payoff equals the estimate and differs from its
\* discounted next value holds, and a path is exercised at some column
C21_Witness ==
    /\ ValueInitialised
    /\ \E c \in Finalised : \E k \in 1..value_matrix.nrow :
          /\ Tied(k, c)
          /\ payoff_matrix.a[k][c + 1] # FxMul(value_matrix.a[k][c + 2], discount_factor)
          /\ value_matrix.a[k][c + 1] = FxMul(value_matrix.a[k][c + 2], discount_factor)
    /\ \E c \in Finalised : \E i \in 1..value_matrix.nrow :
          /\ Exercised(i, c)
          /\ value_matrix.a[i][c + 1] = payoff_matrix.a[i][c + 1]

\* C22 as stated: for every path and every written step t in 1..N-1 the
\* stored value is the maximum of the payoff from immediate exercise and the
\* continuation value, V_t = max(h_t, C_t), the continuation value being
\* either the regression's estimate or the path's own discounted next value.
C22_ValueIsMax ==
    ValueInitialised =>
        \/ \A c \in Finalised : \A i \in 1..value_matrix.nrow :
               value_matrix.a[i][c + 1] * ContinuationAt(c)[i].den =
                   Max(payoff_matrix.a[i][c + 1] * ContinuationAt(c)[i].den,
                       ContinuationAt(c)[i].num)
        \/ \A c \in Finalised : \A i \in 1..value_matrix.nrow :
               value_matrix.a[i][c + 1] =
                   Max(payoff_matrix.a[i][c + 1],
                       FxMul(value_matrix.a[i][c + 2], discount_factor))

\* the first column at or after c at which path i's exercise condition held,
\* N if it held at none before maturity
RECURSIVE Tau(_, _)
Tau(i, c) ==
    IF c >= args.N THEN args.N
    ELSE IF Exercised(i, c) THEN c
    ELSE Tau(i, c + 1)

\* C23: in every state of the backward induction, for every path i and every
\* finalised column t (1 <= t <= N), value[i,t] is payoff[i,tau] discounted by
\* tau - t one-step factors, tau being the first step at or after t at which
\* the path's exercise condition held (N if none); the returned premium is
\* the mean of payoff[i,tau] discounted by tau one-step factors.
C23_CashFlowDiscountedPerStep ==
    ValueInitialised =>
        /\ \A c \in (t + 1)..args.N : \A i \in 1..value_matrix.nrow :
               value_matrix.a[i][c + 1] =
                   DiscountedBy(payoff_matrix.a[i][Tau(i, c) + 1], discount_factor,
                                Tau(i, c) - c)
        /\ pc = "returned" =>
               option_premium.num =
                   SumTo([i \in 1..value_matrix.nrow |->
                             DiscountedBy(payoff_matrix.a[i][Tau(i, 1) + 1],
                                          discount_factor, Tau(i, 1))],
                         value_matrix.nrow)

\* C23 witness: a premium returned at a positive rate over three steps, one
\* path exercised at step 2 and another paid at maturity
C23_Witness ==
    /\ ValueInitialised
    /\ pc = "returned"
    /\ args.N = 3
    /\ discount_factor < 100
    /\ \E i, k \in 1..value_matrix.nrow :
          /\ Tau(i, 1) = 2
          /\ Tau(k, 1) = 3
          /\ value_matrix.a[i][2] > 0
          /\ value_matrix.a[k][2] > 0
          /\ value_matrix.a[k][2] < payoff_matrix.a[k][4]

\* the value matrix after the iterations for columns c, c - 1, ..., 1
RECURSIVE Induction(_, _, _, _, _, _)
Induction(value, S, payoff, d, deg, c) ==
    IF c < 1 THEN value
    ELSE Induction(LsmcStep(value, S, payoff, d, deg, c), S, payoff, d, deg, c - 1)

\* the premium the pricer computes from a path matrix and a payoff matrix
PremiumOf(S, payoff, d, deg) ==
    OptionPremium(Induction(ValueInit(payoff), S, payoff, d, deg, payoff.ncol - 2), d)

\* the payoff matrix with v in every row of column 0
WithFirstColumn(payoff, v) ==
    Matrix(payoff.nrow, payoff.ncol,
           LAMBDA i, j : IF j = 1 THEN v ELSE payoff.a[i][j])

\* C24: column 0 of the value matrix is zero in every state from its creation
\* to the return, and the returned premium is the one the pricer computes
\* from the same paths with any other content in payoff[:,0].
C24_FirstColumnNeverWritten ==
    ValueInitialised =>
        /\ \A i \in 1..value_matrix.nrow : value_matrix.a[i][1] = 0
        /\ pc = "returned" =>
               \A v \in {0, 50, 5000} :
                   option_premium =
                       PremiumOf(S_t, WithFirstColumn(payoff_matrix, v),
                                 discount_factor, args.poly_degree)

\* C24 witness: a positive premium returned after two iterations, with a
\* positive payoff in column 0 and column 1 of the value matrix written
C24_Witness ==
    /\ ValueInitialised
    /\ pc = "returned"
    /\ args.N = 3
    /\ option_premium.num > 0
    /\ \E i \in 1..value_matrix.nrow :
          /\ payoff_matrix.a[i][1] > 0
          /\ value_matrix.a[i][2] > 0
          /\ value_matrix.a[i][1] = 0

\* C25: from the creation of the payoff matrix to the return, no step of
\* lsmc_american_option changes the path matrix or the payoff matrix; the
\* steps of the backward induction change the value matrix and t alone.
C25_PathsAndPayoffFrozen ==
    [][(ValueInitialised /\ ValueInitialised') =>
          /\ S_t' = S_t
          /\ payoff_matrix' = payoff_matrix
          /\ payoff_matrix = PayoffMatrix(S_t, args.K, args.option_type)]_vars

\* C25 witness: two iterations have rewritten the value matrix, and the
\* payoff matrix is still the one computed from the paths
C25_Witness ==
    /\ ValueInitialised
    /\ args.N = 3
    /\ t = 0
    /\ value_matrix # ValueInit(payoff_matrix)
    /\ payoff_matrix = PayoffMatrix(S_t, args.K, args.option_type)
    /\ \E i \in 1..payoff_matrix.nrow : payoff_matrix.a[i][2] # value_matrix.a[i][2]

\* the one-step log-increments of path i, one per column of dW
Increments(i) ==
    [c \in 1..dW.ncol |-> LogStep(args.mu, args.sigma, dt, dW.a[i][c])]

\* C26 as stated: for every path i and every column t in 1..N of the matrix
\* simulate_gbm returns for valid parameters, ln(S[i,t]/s_0) is the sum of
\* exactly t one-step log-increments (those of steps 1..t, or those drawn
\* first), so that column t is at elapsed time t*dt and the last one at T.
C26_ColumnHoldsTIncrements ==
    (/\ fn = "simulate_gbm"
     /\ pc = "returned"
     /\ args \in ValidGbmArgs) =>
        \/ \A i \in 1..S_t.nrow : \A c \in 1..args.N :
               S_t.a[i][c + 1] =
                   Price(args.s_0, CumSum(Increments(i), c + 1) - Increments(i)[1])
        \/ \A i \in 1..S_t.nrow : \A c \in 1..args.N :
               S_t.a[i][c + 1] = Price(args.s_0, CumSum(Increments(i), c))

\* the payoff of exercising at time 0
ImmediateExercise ==
    IF args.option_type = "call"
    THEN Max(Fx(args.s_0) - Fx(args.K), 0)
    ELSE Max(Fx(args.K) - Fx(args.s_0), 0)

\* C27 as stated: the premium lsmc_american_option returns is never below the
\* immediate-exercise value at time 0, max(K - S_0, 0) for a put and
\* max(S_0 - K, 0) for a call.
C27_AtLeastImmediateExercise ==
    (fn = "lsmc_american_option" /\ pc = "returned") =>
        option_premium.num >= ImmediateExercise * option_premium.den

\* C28: for N = 1 lsmc_american_option runs no iteration of the backward
\* induction (the loop variable rests at 0 and the value matrix stays as
\* initialised, so no regression is fitted), and the premium it returns is
\* exp(-r*T) times the mean over the paths of the terminal payoff payoff[i,1].
C28_SingleStepIsEuropean ==
    (ValueInitialised /\ args.N = 1) =>
        /\ t = 0
        /\ value_matrix = ValueInit(payoff_matrix)
        /\ pc = "returned" =>
               /\ option_premium.den = args.n_sims
               /\ option_premium.num =
                      SumTo([i \in 1..args.n_sims |->
                                FxMul(payoff_matrix.a[i][2],
                                      Exp2(0 - 2 * args.mu * args.T))],
                            args.n_sims)

\* C28 witness: a one-step premium returned at a positive rate, with two
\* paths in the money at maturity by different amounts
C28_Witness ==
    /\ ValueInitialised
    /\ pc = "returned"
    /\ args.N = 1
    /\ args.mu = 1
    /\ option_premium.num > 0
    /\ \E i, k \in 1..payoff_matrix.nrow :
          /\ payoff_matrix.a[i][2] > payoff_matrix.a[k][2]
          /\ payoff_matrix.a[k][2] > 0

\* C29 as stated: when next_open runs no earlier order of the strategy is
\* still with the broker, so that at most one order is outstanding, and the
\* strategy's pending-order field self.order is non-empty exactly while an
\* order is outstanding.
C29_OnePendingOrderTracked ==
    BtRunning =>
        /\ bt.pc = "next_open" => bt.order.kind = "none"
        /\ (bt.self_order # "None") <=> (bt.order.kind # "none")

====
